---- MODULE Spec2Model ----
(***************************************************************************)
(* Poolr donation front-end: the batch submission / confirmation flow.     *)
(*                                                                         *)
(*   src/src/utils/paymentService.ts  sendTransaction, getCallsStatus,     *)
(*                                    waitForBatchConfirmation             *)
(*   src/src/App.tsx                  App state, handleConnectWallet,      *)
(*                                    handleDisconnect,                    *)
(*                                    handleCreateDonation, handleDonate   *)
(*                                                                         *)
(* One action is one turn of the JavaScript event loop: a user event or a  *)
(* provider reply / timer expiry, together with the synchronous code that  *)
(* runs up to the next await.                                              *)
(***************************************************************************)
EXTENDS Integers, Sequences, FiniteSets, TLC

VARIABLES
    entry,          \* which exported entry point this execution drives
    account,        \* App.tsx:18  useState<string | null>(null)
    provider,       \* App.tsx:19
    sdk,            \* App.tsx:20
    error,          \* App.tsx:21
    isLoading,      \* App.tsx:22
    refreshTrigger, \* App.tsx:23
    walletAvailable,\* result of isWalletAvailable() for this browser
    conn,           \* handleConnectWallet: position of the one run in flight
    disconnecting,  \* number of handleDisconnect runs awaiting disconnectWallet
    run,            \* handleCreateDonation / handleDonate: locals of the run in flight
    last,           \* the event-loop turn that produced this state
    lib,            \* waitForBatchConfirmation: locals of the call in flight
    libObs,         \* what the provider answered to that call's status requests
    snd,            \* sendTransaction: locals of the call in flight
    eq              \* the three polling loops driven by one provider script

vars == <<entry, account, provider, sdk, error, isLoading, refreshTrigger,
          walletAvailable, conn, disconnecting, run, last, lib, libObs,
          snd, eq>>

appVars == <<account, provider, sdk, error, isLoading, refreshTrigger,
             walletAvailable, conn, disconnecting, run>>

(***************************************************************************)
(* Bounds of the model                                                     *)
(***************************************************************************)
MaxRefresh == 2
MaxDisconnects == 2
MaxAttemptsArg == 3

(***************************************************************************)
(* Program constants                                                       *)
(***************************************************************************)
DefaultMaxAttempts == 60
DefaultIntervalMs == 2000
CreateAttempts == 60
CreateIntervalMs == 2000
DonateAttempts == 60
DonateIntervalMs == 2000

Null == "null"

(***************************************************************************)
(* Values exchanged with the wallet provider                               *)
(***************************************************************************)
\* A thrown value: an Error instance with its message, or any other value.
Err(msg) == [isError |-> TRUE, message |-> msg]
NoThrow == [isError |-> FALSE, message |-> ""]
ProviderErrors ==
    { Err("User rejected the request"),
      [isError |-> FALSE, message |-> "rpc error object"] }

\* The status field of a wallet_getCallsStatus result; "undefined" is a
\* result object without that field.
StatusValues == {"CONFIRMED", "FAILED", "PENDING", "undefined"}
StatusObjects == [status : StatusValues, error : {"undefined", "reverted"}]
NullObject == [status |-> "null", error |-> "null"]

\* A settled provider.request promise for wallet_getCallsStatus.
StatusReplies ==
    { [kind |-> "resolve", obj |-> o, thrown |-> NoThrow] : o \in StatusObjects }
    \cup { [kind |-> "resolve", obj |-> NullObject, thrown |-> NoThrow] }
    \cup { [kind |-> "reject", obj |-> NullObject, thrown |-> e] : e \in ProviderErrors }

\* A settled provider.request promise for wallet_sendCalls; "" and Null are
\* the falsy batch ids.
BatchIds == {"0xbatch", "", Null}
SendReplies ==
    { [kind |-> "resolve", id |-> b, thrown |-> NoThrow] : b \in BatchIds }
    \cup { [kind |-> "reject", id |-> Null, thrown |-> e] : e \in ProviderErrors }

Truthy(v) == v # Null /\ v # "" /\ v # "undefined"

\* `${prefix}${status.error}` for the two values of status.error
FailedMessage(prefix, detail) ==
    IF prefix = "Batch failed: "
    THEN (IF detail = "reverted" THEN "Batch failed: reverted"
                                 ELSE "Batch failed: undefined")
    ELSE (IF detail = "reverted" THEN "Transaction failed: reverted"
                                 ELSE "Transaction failed: undefined")

\* Reading .status of null throws a TypeError.
NullTypeError == Err("Cannot read properties of null (reading 'status')")

(***************************************************************************)
(* What the provider answered, recorded apart from the code's own locals   *)
(***************************************************************************)
NoObs == [polls |-> 0, pending |-> 0, firstTerminal |-> "none",
          firstTerminalAt |-> 0, firstObj |-> NullObject, rejected |-> FALSE]

IsStatusReply(reply) == reply.kind = "resolve" /\ reply.obj # NullObject

Observe(o, reply) ==
    LET terminal == IsStatusReply(reply)
                    /\ reply.obj.status \in {"CONFIRMED", "FAILED"}
        first == terminal /\ o.firstTerminal = "none"
    IN [polls |-> o.polls + 1,
        pending |-> IF IsStatusReply(reply) /\ ~terminal
                    THEN o.pending + 1 ELSE o.pending,
        firstTerminal |-> IF first THEN reply.obj.status ELSE o.firstTerminal,
        firstTerminalAt |-> IF first THEN o.polls + 1 ELSE o.firstTerminalAt,
        firstObj |-> IF first THEN reply.obj ELSE o.firstObj,
        rejected |-> o.rejected \/ ~IsStatusReply(reply)]

(***************************************************************************)
(* The event-loop turn just taken: the operation, the run it belongs to,   *)
(* what the environment delivered, the provider request the turn issued,   *)
(* and how the run ended if it ended.                                      *)
(***************************************************************************)
Turn(op, k, got, sent, outcome, thrown) ==
    [op |-> op, k |-> k, got |-> got, sent |-> sent, outcome |-> outcome,
     thrown |-> thrown]

\* What the environment delivered in a turn, named apart from the code's tests.
StatusLabel(reply) ==
    IF reply.kind = "reject" THEN "rejected"
    ELSE IF reply.obj = NullObject THEN "null"
    ELSE IF reply.obj.status \in {"CONFIRMED", "FAILED"} THEN reply.obj.status
    ELSE "pending"
BatchLabel(reply) ==
    IF reply.kind = "reject" THEN "rejected"
    ELSE IF reply.id = "0xbatch" THEN "batchId" ELSE "falsy"

\* A turn that leaves a run awaiting a request has just issued that request.
Issued(st) ==
    IF st.pc = "request" THEN "wallet_getCallsStatus"
    ELSE IF st.pc = "send" THEN "wallet_sendCalls"
    ELSE "none"

(***************************************************************************)
(* waitForBatchConfirmation (paymentService.ts:178-203)                    *)
(***************************************************************************)
LibIdle ==
    [pc |-> "idle", givenMax |-> FALSE, givenMs |-> FALSE,
     maxAttempts |-> 0, intervalMs |-> 0, attempt |-> 0,
     requests |-> 0, inflight |-> 0, waits |-> 0, timer |-> 0,
     result |-> NullObject, thrown |-> NoThrow]

\* getCallsStatus: one wallet_getCallsStatus request, awaited.
GetCallsStatus(st) ==
    [st EXCEPT !.pc = "request", !.requests = @ + 1, !.inflight = @ + 1]

\* Variant: the loop test written attempt <= maxAttempts.
LibLoopHead_OffByOne(st) ==
    IF st.attempt <= st.maxAttempts
    THEN GetCallsStatus(st)
    ELSE [st EXCEPT !.pc = "threw", !.thrown = Err("Batch confirmation timeout")]

\* for (...; attempt < maxAttempts; ...) { await getCallsStatus } ... throw timeout
LibLoopHead(st) ==
    IF st.attempt < st.maxAttempts
    THEN GetCallsStatus(st)
    ELSE [st EXCEPT !.pc = "threw", !.thrown = Err("Batch confirmation timeout")]

\* Variant: the FAILED test is missing, so a FAILED answer waits and polls again.
LibOnStatus_NoFailedCheck(st, reply) ==
    LET got == [st EXCEPT !.inflight = @ - 1]
    IN  IF reply.kind = "reject"
        THEN [got EXCEPT !.pc = "threw", !.thrown = reply.thrown]
        ELSE IF reply.obj = NullObject
        THEN [got EXCEPT !.pc = "threw", !.thrown = NullTypeError]
        ELSE IF reply.obj.status = "CONFIRMED"
        THEN [got EXCEPT !.pc = "returned", !.result = reply.obj]
        ELSE [got EXCEPT !.pc = "sleep", !.waits = @ + 1, !.timer = st.intervalMs]

\* Variant: only the status PENDING waits; any other unconfirmed status throws.
LibOnStatus_OnlyPendingWaits(st, reply) ==
    LET got == [st EXCEPT !.inflight = @ - 1]
    IN  IF reply.kind = "reject"
        THEN [got EXCEPT !.pc = "threw", !.thrown = reply.thrown]
        ELSE IF reply.obj = NullObject
        THEN [got EXCEPT !.pc = "threw", !.thrown = NullTypeError]
        ELSE IF reply.obj.status = "CONFIRMED"
        THEN [got EXCEPT !.pc = "returned", !.result = reply.obj]
        ELSE IF reply.obj.status # "PENDING"
        THEN [got EXCEPT !.pc = "threw",
                         !.thrown = Err(FailedMessage("Batch failed: ", reply.obj.error))]
        ELSE [got EXCEPT !.pc = "sleep", !.waits = @ + 1, !.timer = st.intervalMs]

\* The loop body after the awaited request settles.
LibOnStatus(st, reply) ==
    LET got == [st EXCEPT !.inflight = @ - 1]
    IN  IF reply.kind = "reject"
        THEN [got EXCEPT !.pc = "threw", !.thrown = reply.thrown]
        ELSE IF reply.obj = NullObject
        THEN [got EXCEPT !.pc = "threw", !.thrown = NullTypeError]
        ELSE IF reply.obj.status = "CONFIRMED"
        THEN [got EXCEPT !.pc = "returned", !.result = reply.obj]
        ELSE IF reply.obj.status = "FAILED"
        THEN [got EXCEPT !.pc = "threw",
                         !.thrown = Err(FailedMessage("Batch failed: ", reply.obj.error))]
        ELSE [got EXCEPT !.pc = "sleep", !.waits = @ + 1, !.timer = st.intervalMs]

\* Variant: the timer callback never calls resolve, so the await never returns.
LibOnTimer_NeverResolves(st) == st

\* The timer resolves the awaited promise: attempt++, then the loop test.
LibOnTimer(st) ==
    LibLoopHead([st EXCEPT !.attempt = @ + 1, !.timer = 0])

LibEnded == lib.pc \in {"returned", "threw"}
LibActive == lib.pc \in {"request", "sleep"}

\* A caller invokes waitForBatchConfirmation(provider, batchId[, maxAttempts[, intervalMs]]).
LibCall ==
    /\ entry = "lib"
    /\ lib.pc \in {"idle", "returned", "threw"}
    /\ \E givenMax \in BOOLEAN, m \in 0..MaxAttemptsArg,
          givenMs \in BOOLEAN, ms \in {0, 500} :
          lib' = LibLoopHead([LibIdle EXCEPT
                     !.givenMax = givenMax, !.givenMs = givenMs,
                     !.maxAttempts = IF givenMax THEN m ELSE DefaultMaxAttempts,
                     !.intervalMs = IF givenMs THEN ms ELSE DefaultIntervalMs])
    /\ libObs' = NoObs
    /\ last' = Turn("LibCall", "lib", "call", Issued(lib'), "none", NoThrow)
    /\ UNCHANGED <<entry, appVars, snd, eq>>

LibStatusReply ==
    /\ entry = "lib"
    /\ lib.pc = "request"
    /\ \E reply \in StatusReplies :
          /\ lib' = LibOnStatus(lib, reply)
          /\ libObs' = Observe(libObs, reply)
          /\ last' = Turn("LibStatusReply", "lib", StatusLabel(reply), Issued(lib'),
                          "none", NoThrow)
    /\ UNCHANGED <<entry, appVars, snd, eq>>

LibTimer ==
    /\ entry = "lib"
    /\ lib.pc = "sleep"
    /\ lib' = LibOnTimer(lib)
    /\ last' = Turn("LibTimer", "lib", "timer", Issued(lib'), "none", NoThrow)
    /\ UNCHANGED <<entry, appVars, libObs, snd, eq>>

waitForBatchConfirmation ==
    \/ LibCall
    \/ LibStatusReply
    \/ LibTimer

(***************************************************************************)
(* sendTransaction (paymentService.ts:72-129)                              *)
(***************************************************************************)
SndIdle ==
    [pc |-> "idle", prov |-> Null, url |-> Null, requests |-> 0,
     reply |-> [kind |-> "none", id |-> Null, thrown |-> NoThrow],
     result |-> Null, thrown |-> NoThrow]

\* The provider arguments a caller may pass: null, an object without a
\* request member, a connected provider.
ProviderArgs == {Null, "norequest", "p1"}
HasRequest(p) == p = "p1"
PaymasterArgs == {"", Null, "https://paymaster"}

\* Variant: the paymaster URL is not validated.
SendTransactionBody_NoUrlCheck(st) ==
    IF ~Truthy(st.prov) \/ ~HasRequest(st.prov)
    THEN [st EXCEPT !.pc = "threw",
             !.thrown = Err("No provider available. Please connect to a base account")]
    ELSE [st EXCEPT !.pc = "send", !.requests = @ + 1]

\* The body of the try block up to the awaited request. The encodeFunctionData
\* call before it has constant arguments and changes no state.
SendTransactionBody(st) ==
    IF ~Truthy(st.prov) \/ ~HasRequest(st.prov)
    THEN [st EXCEPT !.pc = "threw",
             !.thrown = Err("No provider available. Please connect to a base account")]
    ELSE IF ~Truthy(st.url)
    THEN [st EXCEPT !.pc = "threw", !.thrown = Err("Paymaster URL is required!")]
    ELSE [st EXCEPT !.pc = "send", !.requests = @ + 1]

\* return result / catch (error) { console.log; throw error }
SendTransactionSettle(st, reply) ==
    IF reply.kind = "reject"
    THEN [st EXCEPT !.pc = "threw", !.thrown = reply.thrown]
    ELSE [st EXCEPT !.pc = "returned", !.result = reply.id]

SendCall ==
    /\ entry = "send"
    /\ snd.pc \in {"idle", "returned", "threw"}
    /\ \E p \in ProviderArgs, u \in PaymasterArgs :
          snd' = SendTransactionBody([SndIdle EXCEPT !.prov = p, !.url = u])
    /\ last' = Turn("SendCall", "send", "call", Issued(snd'), "none", NoThrow)
    /\ UNCHANGED <<entry, appVars, lib, libObs, eq>>

SendReply ==
    /\ entry = "send"
    /\ snd.pc = "send"
    /\ \E reply \in SendReplies :
          /\ snd' = [SendTransactionSettle(snd, reply) EXCEPT !.reply = reply]
          /\ last' = Turn("SendReply", "send", BatchLabel(reply), "none", "none", NoThrow)
    /\ UNCHANGED <<entry, appVars, lib, libObs, eq>>

sendTransaction ==
    \/ SendCall
    \/ SendReply

(***************************************************************************)
(* App component (App.tsx)                                                 *)
(***************************************************************************)
\* DonationList renders one DonationCard per campaign, each with its own
\* isSubmitting and all sharing handleDonate; two cards are modelled.
DonateCards == {"donate", "donateB"}
Handlers == {"create"} \cup DonateCards

\* err instanceof Error ? err.message : fallback
ErrText(thrown, fallback) == IF thrown.isError THEN thrown.message ELSE fallback

Fallback(k) ==
    IF k = "create" THEN "Failed to create donation" ELSE "Failed to process donation"

\* Variant: the copy in handleDonate was given a shorter loop.
Attempts_DonateShort(k) == IF k = "create" THEN CreateAttempts ELSE 30
Attempts(k) == IF k = "create" THEN CreateAttempts ELSE DonateAttempts
IntervalMs(k) == IF k = "create" THEN CreateIntervalMs ELSE DonateIntervalMs

\* amountStr as the form hands it over. BigInt(Math.floor(parseFloat(s) * 1e18))
\* throws a RangeError for NaN; encodeFunctionData rejects a value beyond uint256.
AmountStrs == {"0.5", "abc", "1e60"}
EncodeThrows(s) == s \in {"abc", "1e60"}
EncodeError(s) ==
    IF s = "abc"
    THEN Err("The number NaN cannot be converted to a BigInt because it is not an integer")
    ELSE Err("Number is not in safe 256-bit unsigned integer range")

RunIdle ==
    [pc |-> "idle", attempt |-> 0, sends |-> 0, requests |-> 0, inflight |-> 0,
     waits |-> 0, timer |-> 0, confirmed |-> FALSE, thrown |-> NoThrow]

\* await provider.request({ method: "wallet_getCallsStatus", ... })
InlineRequest(st) ==
    [st EXCEPT !.pc = "request", !.requests = @ + 1, !.inflight = @ + 1]

\* Variant: the test of confirmed after the loop is missing.
InlineAfterLoop_NoTimeoutCheck(st) == [st EXCEPT !.pc = "confirmed"]

\* if (!confirmed) throw new Error("Transaction confirmation timeout")
InlineAfterLoop(st) ==
    IF ~st.confirmed
    THEN [st EXCEPT !.pc = "threw", !.thrown = Err("Transaction confirmation timeout")]
    ELSE [st EXCEPT !.pc = "confirmed"]

\* for (let i = 0; i < 60; i++) { await request ... }
InlineLoopHead(k, st) ==
    IF st.attempt < Attempts(k) THEN InlineRequest(st) ELSE InlineAfterLoop(st)

\* Variant: the wait grows with the attempt number (linear backoff).
InlineOnStatus_Backoff(k, st, reply) ==
    LET got == [st EXCEPT !.inflight = @ - 1]
    IN  IF reply.kind = "reject"
        THEN [got EXCEPT !.pc = "threw", !.thrown = reply.thrown]
        ELSE IF reply.obj = NullObject
        THEN [got EXCEPT !.pc = "threw", !.thrown = NullTypeError]
        ELSE IF reply.obj.status = "CONFIRMED"
        THEN [got EXCEPT !.pc = "confirmed", !.confirmed = TRUE]
        ELSE IF reply.obj.status = "FAILED"
        THEN [got EXCEPT !.pc = "threw",
                         !.thrown = Err(FailedMessage("Transaction failed: ", reply.obj.error))]
        ELSE [got EXCEPT !.pc = "sleep", !.waits = @ + 1,
                         !.timer = IntervalMs(k) * (st.attempt + 1)]

\* The loop body after the awaited status request settles.
InlineOnStatus(k, st, reply) ==
    LET got == [st EXCEPT !.inflight = @ - 1]
    IN  IF reply.kind = "reject"
        THEN [got EXCEPT !.pc = "threw", !.thrown = reply.thrown]
        ELSE IF reply.obj = NullObject
        THEN [got EXCEPT !.pc = "threw", !.thrown = NullTypeError]
        ELSE IF reply.obj.status = "CONFIRMED"
        THEN InlineAfterLoop([got EXCEPT !.confirmed = TRUE])
        ELSE IF reply.obj.status = "FAILED"
        THEN [got EXCEPT !.pc = "threw",
                         !.thrown = Err(FailedMessage("Transaction failed: ", reply.obj.error))]
        ELSE [got EXCEPT !.pc = "sleep", !.waits = @ + 1, !.timer = IntervalMs(k)]

\* The 2000 ms timer resolves: i++, then the loop test.
InlineOnTimer(k, st) ==
    InlineLoopHead(k, [st EXCEPT !.attempt = @ + 1, !.timer = 0])

\* const batchId = await provider.request(wallet_sendCalls); if (!batchId) throw
InlineOnBatchId(k, st, reply) ==
    IF reply.kind = "reject"
    THEN [st EXCEPT !.pc = "threw", !.thrown = reply.thrown]
    ELSE IF ~Truthy(reply.id)
    THEN [st EXCEPT !.pc = "threw", !.thrown = Err("Failed to get batch ID")]
    ELSE InlineLoopHead(k, st)

\* The try block up to the first await.
InlineTry(k, st, amountStr) ==
    IF EncodeThrows(amountStr)
    THEN [st EXCEPT !.pc = "threw", !.thrown = EncodeError(amountStr)]
    ELSE [st EXCEPT !.pc = "send", !.sends = @ + 1]

\* Variant: the guard at the top of the handler is missing.
WalletConnected_NoGuard == TRUE

\* if (!provider || !account) { setError("Wallet not connected"); return; }
WalletConnected == Truthy(provider) /\ Truthy(account)

RunInFlight(k) == run[k].pc \in {"send", "request", "sleep"}

\* Variant: setIsLoading(false) sits at the end of the try block instead of
\* in a finally block, so a throwing run leaves the flag set.
HandlerTurn_NoFinally(k, op, got, st) ==
    IF st.pc = "confirmed"
    THEN /\ refreshTrigger' = refreshTrigger + 1
         /\ isLoading' = FALSE
         /\ error' = error
         /\ run' = [run EXCEPT ![k] = RunIdle]
         /\ last' = Turn(op, k, got, "none", "confirmed", NoThrow)
    ELSE IF st.pc = "threw"
    THEN /\ refreshTrigger' = refreshTrigger
         /\ isLoading' = (IF op = "invoke" THEN TRUE ELSE isLoading)
         /\ error' = ErrText(st.thrown, Fallback(k))
         /\ run' = [run EXCEPT ![k] = RunIdle]
         /\ last' = Turn(op, k, got, "none", "threw", st.thrown)
    ELSE /\ refreshTrigger' = refreshTrigger
         /\ isLoading' = (IF op = "invoke" THEN TRUE ELSE isLoading)
         /\ error' = (IF op = "invoke" THEN "" ELSE error)
         /\ run' = [run EXCEPT ![k] = st]
         /\ last' = Turn(op, k, got, Issued(st), "none", NoThrow)

\* What a turn of handler k leaves behind once its synchronous code has run to
\* the next await (st in flight) or through the end of the handler:
\* setRefreshTrigger(prev + 1) / catch { setError; throw err } / finally
\* { setIsLoading(false) }.
HandlerTurn(k, op, got, st) ==
    IF st.pc = "confirmed"
    THEN /\ refreshTrigger' = refreshTrigger + 1
         /\ isLoading' = FALSE
         /\ error' = error
         /\ run' = [run EXCEPT ![k] = RunIdle]
         /\ last' = Turn(op, k, got, "none", "confirmed", NoThrow)
    ELSE IF st.pc = "threw"
    THEN /\ refreshTrigger' = refreshTrigger
         /\ isLoading' = FALSE
         /\ error' = ErrText(st.thrown, Fallback(k))
         /\ run' = [run EXCEPT ![k] = RunIdle]
         /\ last' = Turn(op, k, got, "none", "threw", st.thrown)
    ELSE /\ refreshTrigger' = refreshTrigger
         /\ isLoading' = (IF op = "invoke" THEN TRUE ELSE isLoading)
         /\ error' = (IF op = "invoke" THEN "" ELSE error)
         /\ run' = [run EXCEPT ![k] = st]
         /\ last' = Turn(op, k, got, Issued(st), "none", NoThrow)

\* Variant: the submit buttons are disabled by isSubmitting alone.
SubmitEnabled_NoLoadingGate(k) == ~(run[k].pc # "idle")

\* disabled={isSubmitting || isLoading || !amount} on the submit button of
\* the form and of each card; run[k].pc # "idle" is that component's
\* isSubmitting, and the amount is chosen non-empty.
SubmitEnabled(k) == ~(run[k].pc # "idle" \/ isLoading)

\* The submit button of the form (CreateDonation) or of a card (DonationCard)
\* is enabled, the user submits, and the component awaits the handler.
\* The cap on refreshTrigger keeps the counter finite.
HandlerInvoke(k) ==
    /\ entry = "app"
    /\ SubmitEnabled(k)
    /\ refreshTrigger < MaxRefresh
    /\ IF ~WalletConnected
       THEN /\ error' = "Wallet not connected"
            /\ last' = Turn("invoke", k, "click", "none", "not_connected", NoThrow)
            /\ UNCHANGED <<isLoading, refreshTrigger, run>>
       ELSE /\ \E amountStr \in AmountStrs :
                 HandlerTurn(k, "invoke", "click", InlineTry(k, RunIdle, amountStr))
    /\ UNCHANGED <<entry, account, provider, sdk, walletAvailable, conn,
                   disconnecting, lib, libObs, snd, eq>>

\* wallet_sendCalls settles.
HandlerBatchId(k) ==
    /\ entry = "app"
    /\ run[k].pc = "send"
    /\ \E reply \in SendReplies :
          HandlerTurn(k, "batchId", BatchLabel(reply), InlineOnBatchId(k, run[k], reply))
    /\ UNCHANGED <<entry, account, provider, sdk, walletAvailable, conn,
                   disconnecting, lib, libObs, snd, eq>>

\* wallet_getCallsStatus settles.
HandlerStatusReply(k) ==
    /\ entry = "app"
    /\ run[k].pc = "request"
    /\ \E reply \in StatusReplies :
          HandlerTurn(k, "status", StatusLabel(reply), InlineOnStatus(k, run[k], reply))
    /\ UNCHANGED <<entry, account, provider, sdk, walletAvailable, conn,
                   disconnecting, lib, libObs, snd, eq>>

\* The setTimeout of the loop body fires.
HandlerTimer(k) ==
    /\ entry = "app"
    /\ run[k].pc = "sleep"
    /\ HandlerTurn(k, "timer", "timer", InlineOnTimer(k, run[k]))
    /\ UNCHANGED <<entry, account, provider, sdk, walletAvailable, conn,
                   disconnecting, lib, libObs, snd, eq>>

handleCreateDonation ==
    \/ HandlerInvoke("create")
    \/ HandlerBatchId("create")
    \/ HandlerStatusReply("create")
    \/ HandlerTimer("create")

handleDonate ==
    \E card \in DonateCards :
        \/ HandlerInvoke(card)
        \/ HandlerBatchId(card)
        \/ HandlerStatusReply(card)
        \/ HandlerTimer(card)

(***************************************************************************)
(* handleConnectWallet (App.tsx:36-68)                                     *)
(***************************************************************************)
ConnIdle == [pc |-> "idle", sdk |-> Null]

\* A settled promise of connectWallet / switchToBaseSepolia /
\* checkPaymasterService: a value or a rejection.
ConnectReplies ==
    { [kind |-> "resolve", sdk |-> s, thrown |-> NoThrow] : s \in {"sdk1", Null} }
    \cup { [kind |-> "reject", sdk |-> Null, thrown |-> e] : e \in ProviderErrors }
BoolReplies ==
    { [kind |-> "resolve", value |-> b, thrown |-> NoThrow] : b \in BOOLEAN }
    \cup { [kind |-> "reject", value |-> FALSE, thrown |-> e] : e \in ProviderErrors }

\* catch (err) { setError(...); setAccount(null); ... } finally { setIsLoading(false) }
ConnectCatch(thrown) ==
    /\ error' = ErrText(thrown, "Failed to connect wallet")
    /\ account' = Null
    /\ provider' = Null
    /\ sdk' = Null
    /\ isLoading' = FALSE
    /\ conn' = ConnIdle
    /\ last' = Turn("connect", "connect", "none", "none", "threw", thrown)

\* The Connect button is rendered while account is null, with
\* disabled={isLoading || !isWalletAvailable()}.
ConnectEnabled == ~Truthy(account) /\ ~(isLoading \/ ~walletAvailable)

ConnectClick ==
    /\ entry = "app"
    /\ ConnectEnabled
    /\ error' = ""
    /\ isLoading' = TRUE
    /\ conn' = [pc |-> "connectWallet", sdk |-> Null]
    /\ last' = Turn("connect", "connect", "none", "none", "none", NoThrow)
    /\ UNCHANGED <<entry, account, provider, sdk, refreshTrigger, walletAvailable,
                   disconnecting, run, lib, libObs, snd, eq>>

ConnectWalletReply ==
    /\ entry = "app"
    /\ conn.pc = "connectWallet"
    /\ \E reply \in ConnectReplies :
          IF reply.kind = "reject"
          THEN ConnectCatch(reply.thrown)
          ELSE /\ conn' = [pc |-> "switch", sdk |-> reply.sdk]
               /\ last' = Turn("connect", "connect", "none", "none", "none", NoThrow)
               /\ UNCHANGED <<error, account, provider, sdk, isLoading>>
    /\ UNCHANGED <<entry, refreshTrigger, walletAvailable, disconnecting, run,
                   lib, libObs, snd, eq>>

ConnectSwitchReply ==
    /\ entry = "app"
    /\ conn.pc = "switch"
    /\ \E reply \in BoolReplies :
          IF reply.kind = "reject"
          THEN ConnectCatch(reply.thrown)
          ELSE IF ~reply.value
          THEN ConnectCatch(Err("Failed to switch to Base Sepolia network"))
          ELSE /\ conn' = [conn EXCEPT !.pc = "paymaster"]
               /\ last' = Turn("connect", "connect", "none", "none", "none", NoThrow)
               /\ UNCHANGED <<error, account, provider, sdk, isLoading>>
    /\ UNCHANGED <<entry, refreshTrigger, walletAvailable, disconnecting, run,
                   lib, libObs, snd, eq>>

ConnectPaymasterReply ==
    /\ entry = "app"
    /\ conn.pc = "paymaster"
    /\ \E reply \in BoolReplies :
          IF reply.kind = "reject"
          THEN ConnectCatch(reply.thrown)
          ELSE IF ~reply.value
          THEN ConnectCatch(Err("Paymaster service not properly configured"))
          ELSE /\ account' = "0xabc"
               /\ provider' = "p1"
               /\ sdk' = conn.sdk
               /\ error' = ""
               /\ isLoading' = FALSE
               /\ conn' = ConnIdle
               /\ last' = Turn("connect", "connect", "none", "none", "connected", NoThrow)
    /\ UNCHANGED <<entry, refreshTrigger, walletAvailable, disconnecting, run,
                   lib, libObs, snd, eq>>

handleConnectWallet ==
    \/ ConnectClick
    \/ ConnectWalletReply
    \/ ConnectSwitchReply
    \/ ConnectPaymasterReply

(***************************************************************************)
(* handleDisconnect (App.tsx:70-82)                                        *)
(***************************************************************************)
\* The Disconnect button is rendered while account is set and is never disabled.
DisconnectClick ==
    /\ entry = "app"
    /\ Truthy(account)
    /\ IF Truthy(sdk)
       THEN /\ disconnecting < MaxDisconnects
            /\ disconnecting' = disconnecting + 1
            /\ UNCHANGED <<account, provider, sdk, error>>
       ELSE /\ account' = Null
            /\ provider' = Null
            /\ sdk' = Null
            /\ error' = ""
            /\ UNCHANGED disconnecting
    /\ last' = Turn("disconnect", "disconnect", "none", "none", "none", NoThrow)
    /\ UNCHANGED <<entry, isLoading, refreshTrigger, walletAvailable, conn, run,
                   lib, libObs, snd, eq>>

\* await disconnectWallet(sdk) settles.
DisconnectReply ==
    /\ entry = "app"
    /\ disconnecting > 0
    /\ disconnecting' = disconnecting - 1
    /\ \E reply \in BoolReplies :
          IF reply.kind = "reject"
          THEN /\ error' = ErrText(reply.thrown, "Failed to disconnect")
               /\ UNCHANGED <<account, provider, sdk>>
          ELSE /\ account' = Null
               /\ provider' = Null
               /\ sdk' = Null
               /\ error' = ""
    /\ last' = Turn("disconnect", "disconnect", "none", "none", "none", NoThrow)
    /\ UNCHANGED <<entry, isLoading, refreshTrigger, walletAvailable, conn, run,
                   lib, libObs, snd, eq>>

handleDisconnect ==
    \/ DisconnectClick
    \/ DisconnectReply

(***************************************************************************)
(* The three polling loops side by side: the provider's n-th answer is     *)
(* given to the n-th status request of each loop.                          *)
(***************************************************************************)
EqIdle == [lib |-> LibIdle, create |-> RunIdle, donate |-> RunIdle]

EqBegin ==
    /\ entry = "eq"
    /\ \A n \in {"lib", "create", "donate"} :
          eq[n].pc \in {"idle", "returned", "confirmed", "threw"}
    /\ eq' = [lib |-> LibLoopHead([LibIdle EXCEPT !.maxAttempts = 60,
                                                    !.intervalMs = 2000]),
              create |-> InlineLoopHead("create", RunIdle),
              donate |-> InlineLoopHead("donate", RunIdle)]
    /\ last' = Turn("EqBegin", "eq", "none", "none", "none", NoThrow)
    /\ UNCHANGED <<entry, appVars, lib, libObs, snd>>

EqStatusReply ==
    /\ entry = "eq"
    /\ \E n \in {"lib", "create", "donate"} : eq[n].pc = "request"
    /\ \E reply \in StatusReplies :
          eq' = [lib |-> IF eq.lib.pc = "request"
                         THEN LibOnStatus(eq.lib, reply) ELSE eq.lib,
                 create |-> IF eq.create.pc = "request"
                            THEN InlineOnStatus("create", eq.create, reply)
                            ELSE eq.create,
                 donate |-> IF eq.donate.pc = "request"
                            THEN InlineOnStatus("donate", eq.donate, reply)
                            ELSE eq.donate]
    /\ last' = Turn("EqStatusReply", "eq", "none", "none", "none", NoThrow)
    /\ UNCHANGED <<entry, appVars, lib, libObs, snd>>

EqTimer ==
    /\ entry = "eq"
    /\ \E n \in {"lib", "create", "donate"} : eq[n].pc = "sleep"
    /\ eq' = [lib |-> IF eq.lib.pc = "sleep" THEN LibOnTimer(eq.lib) ELSE eq.lib,
              create |-> IF eq.create.pc = "sleep"
                         THEN InlineOnTimer("create", eq.create) ELSE eq.create,
              donate |-> IF eq.donate.pc = "sleep"
                         THEN InlineOnTimer("donate", eq.donate) ELSE eq.donate]
    /\ last' = Turn("EqTimer", "eq", "none", "none", "none", NoThrow)
    /\ UNCHANGED <<entry, appVars, lib, libObs, snd>>

(***************************************************************************)
(* Specification                                                           *)
(***************************************************************************)
Init ==
    /\ entry \in {"app", "lib", "send", "eq"}
    /\ account = Null
    /\ provider = Null
    /\ sdk = Null
    /\ walletAvailable \in (IF entry = "app" THEN BOOLEAN ELSE {TRUE})
    /\ error = (IF walletAvailable THEN ""
                ELSE "Base Account wallet not available. Please install the Base Account extension.")
    /\ isLoading = FALSE
    /\ refreshTrigger = 0
    /\ conn = ConnIdle
    /\ disconnecting = 0
    /\ run = [k \in Handlers |-> RunIdle]
    /\ last = Turn("mount", "none", "none", "none", "none", NoThrow)
    /\ lib = LibIdle
    /\ libObs = NoObs
    /\ snd = SndIdle
    /\ eq = EqIdle

Next ==
    \/ handleConnectWallet
    \/ handleDisconnect
    \/ handleCreateDonation
    \/ handleDonate
    \/ waitForBatchConfirmation
    \/ sendTransaction
    \/ EqBegin
    \/ EqStatusReply
    \/ EqTimer

Spec == Init /\ [][Next]_vars

\* Every provider request and every timer eventually completes: a pending
\* promise settles and an armed setTimeout fires. User events are not forced.
Fairness ==
    /\ WF_vars(LibStatusReply)
    /\ WF_vars(LibTimer)
    /\ \A k \in Handlers :
          /\ WF_vars(HandlerBatchId(k))
          /\ WF_vars(HandlerStatusReply(k))
          /\ WF_vars(HandlerTimer(k))

FairSpec == Spec /\ Fairness

(***************************************************************************)
(* Properties                                                              *)
(***************************************************************************)
Loops == {"lib", "create", "donate"}

\* C1 (hard attempt cap). A call of waitForBatchConfirmation never issues
\* more wallet_getCallsStatus requests than its maxAttempts, which is 60 when
\* the caller passes none; the inline loops of handleCreateDonation and
\* handleDonate never issue more than 60.
C1_AttemptCap ==
    /\ lib.requests <= lib.maxAttempts
    /\ (lib.pc # "idle" /\ ~lib.givenMax) => lib.maxAttempts = 60
    /\ \A k \in Handlers : run[k].requests <= 60

\* The cap is reached: 60 requests were issued and the call timed out.
C1_Witness ==
    /\ lib.pc = "threw"
    /\ ~lib.givenMax
    /\ lib.requests = 60

\* C2 (normal return). waitForBatchConfirmation has returned exactly when the
\* first CONFIRMED or FAILED answer among its polls was CONFIRMED (so no
\* earlier poll reported FAILED), that poll being one of the first maxAttempts;
\* the value returned is that poll's status object, and that poll was the
\* last request issued.
C2_ReturnsIffConfirmed ==
    /\ (lib.pc = "returned")
         <=> (/\ libObs.firstTerminal = "CONFIRMED"
              /\ libObs.firstTerminalAt <= lib.maxAttempts)
    /\ lib.pc = "returned" =>
         /\ lib.result = libObs.firstObj
         /\ lib.result.status = "CONFIRMED"
         /\ lib.requests = libObs.firstTerminalAt
         /\ libObs.polls = libObs.firstTerminalAt
         /\ lib.inflight = 0

\* A call returned at its third poll, after two pending answers.
C2_Witness ==
    /\ lib.pc = "returned"
    /\ lib.requests = 3
    /\ libObs.pending = 2
    /\ lib.result = [status |-> "CONFIRMED", error |-> "reverted"]

\* C3 (failure and timeout). The call throws 'Batch failed: <error>' exactly
\* when the first CONFIRMED or FAILED answer was FAILED, that poll being the
\* last request issued; a call that has ended threw 'Batch confirmation
\* timeout' exactly when all maxAttempts polls answered with a status that is
\* neither CONFIRMED nor FAILED; and every such answer was followed by a wait.
C3_ThrowsOnFailureOrTimeout ==
    /\ libObs.firstTerminal = "FAILED" =>
         /\ lib.pc = "threw"
         /\ lib.thrown = Err(FailedMessage("Batch failed: ", libObs.firstObj.error))
         /\ lib.requests = libObs.firstTerminalAt
         /\ libObs.polls = libObs.firstTerminalAt
    /\ (lib.pc = "threw" /\ lib.thrown \in {Err("Batch failed: reverted"),
                                            Err("Batch failed: undefined")})
         => libObs.firstTerminal = "FAILED"
    /\ LibEnded =>
         ((lib.thrown = Err("Batch confirmation timeout"))
            <=> (libObs.pending = lib.maxAttempts /\ libObs.polls = lib.maxAttempts))
    /\ lib.pc # "idle" => lib.waits = libObs.pending

\* A call given maxAttempts = 3 timed out after three answers that were
\* neither CONFIRMED nor FAILED.
C3_Witness ==
    /\ lib.pc = "threw"
    /\ lib.thrown = Err("Batch confirmation timeout")
    /\ lib.givenMax
    /\ lib.maxAttempts = 3
    /\ libObs.pending = 3

\* How far a loop has got and how it ended, in the terms the three share.
Outcome(n) ==
    LET st == eq[n]
    IN  IF st.pc \in {"returned", "confirmed"} THEN "confirmed"
        ELSE IF st.pc # "threw" THEN st.pc
        ELSE IF st.thrown.isError
                /\ st.thrown.message \in {"Batch failed: reverted",
                      "Batch failed: undefined", "Transaction failed: reverted",
                      "Transaction failed: undefined"}
        THEN "failed"
        ELSE IF st.thrown \in {Err("Batch confirmation timeout"),
                               Err("Transaction confirmation timeout")}
        THEN "timeout"
        ELSE "error"
Profile(n) ==
    [requests |-> eq[n].requests, waits |-> eq[n].waits, outcome |-> Outcome(n)]

\* C4 (three identical loops). Given the same provider answers, the inline
\* loops of handleCreateDonation and handleDonate and the helper called with
\* (60, 2000) have at every point issued the same number of status requests,
\* performed the same number of waits, and reached the same outcome.
C4_LoopsAgree ==
    /\ Profile("create") = Profile("lib")
    /\ Profile("donate") = Profile("lib")
    /\ \A n \in Loops : eq[n].pc = "sleep" => eq[n].timer = 2000

\* All three timed out after 60 requests and 60 waits.
C4_Witness ==
    \A n \in Loops :
        Profile(n) = [requests |-> 60, waits |-> 60, outcome |-> "timeout"]

\* C5 (sendTransaction). With no provider, a provider without request, or no
\* paymaster URL the call throws and issues no wallet_sendCalls request;
\* otherwise it issues exactly one, and returns that request's result or
\* throws the very value the provider rejected with.
C5_SendTransaction ==
    LET bad == ~Truthy(snd.prov) \/ ~HasRequest(snd.prov) \/ ~Truthy(snd.url)
    IN  snd.pc # "idle" =>
          /\ bad => (snd.pc = "threw" /\ snd.requests = 0 /\ snd.thrown.isError)
          /\ ~bad =>
               /\ snd.requests = 1
               /\ snd.pc \in {"send", "returned", "threw"}
               /\ snd.pc = "returned" =>
                    (snd.reply.kind = "resolve" /\ snd.result = snd.reply.id)
               /\ snd.pc = "threw" =>
                    (snd.reply.kind = "reject" /\ snd.thrown = snd.reply.thrown)

\* A call with a provider and a paymaster URL returned the batch id.
C5_Witness ==
    /\ snd.pc = "returned"
    /\ snd.prov = "p1"
    /\ snd.url = "https://paymaster"
    /\ snd.result = "0xbatch"

\* One polling loop: requests never overlap, the first is issued at once,
\* each later one follows exactly one wait, and every wait has length ms.
FixedInterval(st, ms) ==
    /\ st.inflight = (IF st.pc = "request" THEN 1 ELSE 0)
    /\ st.pc = "request" => st.waits = st.requests - 1
    /\ st.pc = "sleep" => (st.timer = ms /\ st.waits = st.requests)
    /\ st.pc # "sleep" => st.timer = 0

\* C6 (fixed interval). In every polling run the first status request is
\* issued without a wait, each later request follows exactly one wait since
\* the previous answer, every wait has the run's fixed length (intervalMs,
\* 2000 when the caller passes none, 2000 in the inline loops), and at most
\* one status request is in flight.
C6_FixedInterval ==
    /\ FixedInterval(lib, lib.intervalMs)
    /\ (lib.pc # "idle" /\ ~lib.givenMs) => lib.intervalMs = 2000
    /\ \A k \in Handlers : FixedInterval(run[k], 2000)

\* The third request of a call with intervalMs = 500 is in flight after two waits.
C6_Witness ==
    /\ lib.pc = "request"
    /\ lib.intervalMs = 500
    /\ lib.requests = 3
    /\ lib.waits = 2

\* C7 (termination). If every provider request and every timer completes,
\* each call of waitForBatchConfirmation in flight ends by returning or
\* throwing, and each run of handleCreateDonation and handleDonate in flight
\* finishes.
C7_Termination ==
    /\ LibActive ~> LibEnded
    /\ \A k \in Handlers : RunInFlight(k) ~> (run[k].pc = "idle")

\* A run of handleDonate has had 60 status requests answered pending and is in
\* its last wait.
C7_Witness ==
    /\ run["donate"].pc = "sleep"
    /\ run["donate"].requests = 60

\* C8 (loading flag). While a run of handleCreateDonation or handleDonate
\* started with a connected wallet is in flight isLoading is true, and the
\* turn in which such a run finishes, confirmed or throwing, leaves
\* isLoading false.
C8_LoadingFlag ==
    \A k \in Handlers :
        /\ RunInFlight(k) => isLoading
        /\ (last.k = k /\ last.outcome \in {"confirmed", "threw"}) => ~isLoading

\* A run of handleCreateDonation has just ended with the confirmation timeout.
C8_Witness ==
    /\ last.k = "create"
    /\ last.outcome = "threw"
    /\ last.thrown = Err("Transaction confirmation timeout")
    /\ ~isLoading

C9_Step ==
    /\ refreshTrigger' = IF last'.k \in Handlers /\ last'.outcome = "confirmed"
                         THEN refreshTrigger + 1 ELSE refreshTrigger
    /\ \A k \in Handlers : last'.k = k =>
         /\ (last'.outcome = "confirmed") <=> (last'.got = "CONFIRMED")
         /\ last'.got \in {"rejected", "falsy", "FAILED", "null"}
              => last'.outcome = "threw"
         /\ (last'.got = "timer" /\ run[k].requests = 60)
              => (last'.outcome = "threw"
                  /\ last'.thrown = Err("Transaction confirmation timeout"))
         /\ last'.outcome = "threw" =>
              /\ error' = ErrText(last'.thrown, Fallback(k))
              /\ error' # ""

\* C9 (refreshTrigger). A turn changes refreshTrigger only when it ends a run
\* of handleCreateDonation or handleDonate on a CONFIRMED answer, and then by
\* exactly 1; a run ended by a rejected request, a falsy batch id, a FAILED
\* answer or the timeout throws, and the error state is set from the value
\* thrown to the calling component.
C9_RefreshTrigger == [][C9_Step]_vars

\* A run of handleDonate has just been confirmed and refreshTrigger is 1.
C9_Witness ==
    /\ last.k = "donate"
    /\ last.outcome = "confirmed"
    /\ refreshTrigger = 1

C10_Step ==
    \A k \in Handlers :
        (last'.k = k /\ last'.op = "invoke" /\ (provider = Null \/ account = Null))
        => /\ last'.sent = "none"
           /\ run'[k].pc = "idle"
           /\ run'[k].sends = 0
           /\ run'[k].requests = 0
           /\ error' = "Wallet not connected"
           /\ isLoading' = isLoading
           /\ refreshTrigger' = refreshTrigger

\* C10 (wallet-not-connected guard). Invoking handleCreateDonation or
\* handleDonate while provider or account is null issues no request, sets
\* error to 'Wallet not connected', and leaves isLoading and refreshTrigger
\* as they were.
C10_NotConnectedGuard == [][C10_Step]_vars

\* handleCreateDonation was invoked after a disconnect that followed a
\* confirmed run: the guard returned and refreshTrigger is still 1.
C10_Witness ==
    /\ last.k = "create"
    /\ last.op = "invoke"
    /\ last.outcome = "not_connected"
    /\ error = "Wallet not connected"
    /\ refreshTrigger = 1
    /\ ~isLoading

\* The runs of the three loading handlers that are awaiting something.
InFlightRuns ==
    {k \in Handlers : RunInFlight(k)}
    \cup (IF conn.pc # "idle" THEN {"connect"} ELSE {})

\* C11 (mutual exclusion through the loading flag). At most one run among
\* handleConnectWallet, handleCreateDonation and handleDonate (any card) is
\* in flight, hence at most one batch submission / polling run; whenever one
\* is in flight isLoading is true, so every button that could start another
\* is disabled.
C11_MutualExclusion ==
    /\ Cardinality(InFlightRuns) <= 1
    /\ InFlightRuns # {} =>
         /\ isLoading
         /\ ~ConnectEnabled
         /\ \A k \in Handlers : ~SubmitEnabled(k)

\* A card's donation is being polled, the wallet was disconnected meanwhile
\* (the Connect button is rendered), and the other components are not
\* submitting: only isLoading keeps a second run from starting.
C11_Witness ==
    /\ run["donate"].pc = "request"
    /\ run["donate"].requests = 2
    /\ account = Null
    /\ walletAvailable
    /\ run["create"].pc = "idle"
    /\ run["donateB"].pc = "idle"
    /\ conn.pc = "idle"
    /\ isLoading

====
